---- MODULE Spec2Model ----
(***************************************************************************)
(* Model of the kuber node agent: the installation process of one server   *)
(* (server/install.go) and the Create, Destroy, SendCommand and Attach     *)
(* operations of its Kubernetes environment                                *)
(* (environment/kubernetes/pod.go).                                        *)
(*                                                                         *)
(* Every cluster API call, every host file-system call and every call on   *)
(* the shared Server object is one atomic step; the Go code between two    *)
(* such calls only touches locals of the calling goroutine.                *)
(*                                                                         *)
(* The goroutine Execute spawns to stream the installer's output writes    *)
(* only to the install sink, which is not part of the state modelled here. *)
(***************************************************************************)
EXTENDS Integers, Sequences, FiniteSets, TLC

\* Goroutines that may call Server.Install / Server.Reinstall on the one
\* server.
InstallProcs == {"i1", "i2"}

\* Goroutines calling Environment.Create / Environment.Destroy.
EnvProcs == {"e1"}

\* The same with a second caller on the same server.
ConcurrentEnvProcs == {"e1", "e2"}

\* Goroutines calling Environment.SendCommand.
CmdProcs == {"s1"}

\* Goroutines calling Environment.Attach.
AttachProcs == {"a1"}

\* Number of Attach calls in one behaviour; every call starts a goroutine.
MaxAttach == 2

Goroutines == 1..MaxAttach

\* Number of lines the server's process writes to its log.
MaxLines == 1
MaxEnvVars == 2

\* Commands passed to SendCommand.
Commands == {"stop", "say hi"}

\* Values of the stop configuration (meta.Stop) of the environment.
StopConfigs ==
    {[type |-> "command", value |-> "stop"],
     [type |-> "signal", value |-> "stop"],
     [type |-> "command", value |-> "end"]}

\* Number of cluster / host calls that may fail for an outside reason
\* (API server error, I/O error) in one behaviour.
MaxFaults == 1

\* time.Second*10 passed to WaitForStop, in seconds.
StopTimeout == 10

Offline == "offline"
Running == "running"
Stopping == "stopping"

NoPod == "None"
PodPending == "Pending"
PodRunning == "Running"
PodSucceeded == "Succeeded"
PodFailed == "Failed"

ErrNil == "nil"
ErrLock == "install: cannot obtain installation lock"
ErrStop == "install: failed to stop running environment"
ErrSync == "install: failed to sync server state with Panel"
ErrScript == "GetInstallationScript failed"
ErrCluster == "environment.Cluster failed"
ErrWriteScript == "failed to write installation script to disk"
ErrRemovePvc == "failed to remove pvc before running installation"
ErrRemoveContainer == "failed to remove existing install container for server"
ErrExecute == "Execute failed"

VARIABLES
    pod,            \* runtime pod {Id} exists
    svc,            \* service svc-{Id} exists
    pvc,            \* PVC {Id}-pvc exists
    configmap,      \* ConfigMap {Id}-configmap exists
    installer,      \* phase of pod {Id}-installer, NoPod when absent
    installerUid,   \* UID the cluster gave the installer pod
    podObject,      \* runtime pod as Create submitted it
    svcObject,      \* service as Create submitted it
    installerEnv,   \* Env of the installer pod's container as submitted
    tmpDir,         \* {TmpDir}/{Id} exists
    logFile,        \* {LogDir}/install/{Id}.log: "absent", "partial", "full"
    installing,     \* Server.installing
    state,          \* lifecycle state of the environment
    ctxCancelled,   \* Server.Context() is cancelled
    skipEggScripts, \* Config().SkipEggScripts
    configuration,  \* configuration snapshot of the server
    pc,             \* position of every goroutine
    reinstall,      \* argument of install()
    err,            \* err of install() / Run()
    cID,            \* cID of Run()
    calls,          \* calls of the current invocation on collaborators
    polledPhase,    \* phase seen by the last tick of Execute's poll
    polledCancelled,\* whether the context was cancelled at that tick
    ret,            \* result of the last completed operation of a caller
    faults,         \* outside failures so far
    meta,           \* e.meta.Stop as SendCommand read it
    cmd,            \* c of SendCommand
    stdin,          \* bytes written to the pipe of SendCommand
    scErr,          \* err of SendCommand, shared with its goroutine
    attachStream,   \* the goroutine of SendCommand running executor.Stream
    attached,       \* number of Attach calls so far
    gpc,            \* position of the goroutine of every Attach call
    podLogs,        \* follow-mode log stream of every such goroutine
    pollCtx,        \* pollCtx of every such goroutine
    readPos,        \* lines the goroutine's scanner has handed on
    written,        \* lines the server's process has written
    delivered,      \* per line, number of logCallback invocations
    logCallbackMx   \* holder of e.logCallbackMx, 0 when free

objectVars == <<podObject, svcObject, installerEnv>>
clusterVars == <<pod, svc, pvc, configmap, installer, installerUid, objectVars>>
hostVars == <<tmpDir, logFile>>
serverVars == <<installing, state, ctxCancelled, skipEggScripts, configuration>>
procVars == <<reinstall, err, cID, calls, polledPhase, polledCancelled>>
cmdVars == <<meta, cmd, stdin, scErr, attachStream>>
attachVars == <<attached, gpc, podLogs, pollCtx, readPos, written, delivered,
                logCallbackMx>>
consoleVars == <<cmdVars, attachVars>>
vars == <<clusterVars, hostVars, serverVars, pc, procVars, ret, faults,
          consoleVars>>

Ret(op, e) == [op |-> op, err |-> e]

Call(op, n, a, b) == [op |-> op, n |-> n, a |-> a, b |-> b]

Goto(p, l) == pc' = [pc EXCEPT ![p] = l]

Log(p, c) == calls' = [calls EXCEPT ![p] = Append(@, c)]

Fail(p, e) == err' = [err EXCEPT ![p] = e]

\* An outside failure of the call made in this step.
Fault == faults < MaxFaults /\ faults' = faults + 1

NoFault == faults' = faults

\* Outcome of a call made with a context: with the context cancelled it fails,
\* otherwise it succeeds unless an outside failure strikes.
CallOk(cancelled) == ~cancelled /\ NoFault

CallErr(cancelled) == IF cancelled THEN NoFault ELSE Fault

(***************************************************************************)
(* Objects that Create and Execute build from the configuration snapshot.  *)
(* A string that the code takes apart is a sequence of its characters.     *)
(***************************************************************************)

\* e.Id, the server's identifier.
Id == "8f3c"

EmptyMap == [k \in {} |-> ""]

\* m[k] = v on a Go map.
Put(m, k, v) == [x \in DOMAIN m \cup {k} |-> IF x = k THEN v ELSE m[x]]

\* The reserved labels are set first and the user's labels are copied over
\* them.
Labels_UserLabelsWin(confLabels, id) ==
    LET reserved == Put(Put(Put(EmptyMap, "uuid", id), "Service", "Pterodactyl"),
                        "ContainerType", "server_process")
    IN [k \in DOMAIN reserved \cup DOMAIN confLabels |->
           IF k \in DOMAIN confLabels THEN confLabels[k] ELSE reserved[k]]

\* Create: copy of the user's labels, then the three system labels assigned.
Labels(confLabels, id) ==
    LET copied == [k \in DOMAIN confLabels |-> confLabels[k]]
    IN Put(Put(Put(copied, "uuid", id), "Service", "Pterodactyl"),
           "ContainerType", "server_process")

\* strings.Index(s, "="), counted from position i: 0 when there is none.
RECURSIVE Index(_, _)
Index(s, i) ==
    IF i > Len(s) THEN 0
    ELSE IF s[i] = "=" THEN i
    ELSE Index(s, i + 1)

\* strings.SplitN(s, "=", 2): s cut at its first "=", s alone without one.
SplitN(s) ==
    LET i == Index(s, 1)
    IN IF i = 0 THEN <<s>>
                ELSE <<SubSeq(s, 1, i - 1), SubSeq(s, i + 1, Len(s))>>

\* The loop forwards every entry with a key, whatever its value.
RECURSIVE EnvVars_KeepsEmptyValue(_, _)
EnvVars_KeepsEmptyValue(env, evs) ==
    IF evs = <<>> THEN env
    ELSE LET a == SplitN(Head(evs))
         IN EnvVars_KeepsEmptyValue(
                IF a[1] # <<>>
                   THEN Append(env, [Name |-> a[1], Value |-> a[2]])
                   ELSE env,
                Tail(evs))

\* The loop over the environment entries, in Create and in Execute alike:
\* an entry whose two parts are both non-empty is appended to Env.
RECURSIVE EnvVars(_, _)
EnvVars(env, evs) ==
    IF evs = <<>> THEN env
    ELSE LET a == SplitN(Head(evs))
         IN EnvVars(IF a[1] # <<>> /\ a[2] # <<>>
                       THEN Append(env, [Name |-> a[1], Value |-> a[2]])
                       ELSE env,
                    Tail(evs))

\* a / b on Go's int64: the quotient truncated towards zero.
GoDiv(a, b) == IF a >= 0 THEN a \div b ELSE -((-a) \div b)

\* resource.NewQuantity(value, format): a quantity of value whole units.
NewQuantity(value, format) == [value |-> value, format |-> format]

\* Quantity.MilliValue()
MilliValue(q) == q.value * 1000

\* Create: Resources of the container, Limits and Requests.
Resources(limits) ==
    [Limits |-> [cpu |-> NewQuantity(GoDiv(limits.CpuLimit, 100), "DecimalSI"),
                 memory |-> NewQuantity(limits.BoundedMemoryLimit, "BinarySI")],
     Requests |-> [cpu |-> NewQuantity(GoDiv(limits.CpuLimit, 100), "DecimalSI"),
                   memory |-> NewQuantity(limits.BoundedMemoryLimit, "BinarySI")]]

\* Create: the pod object {Id}.
Pod(conf, id) ==
    [Name |-> id,
     Labels |-> Labels(conf.Labels, id),
     Env |-> EnvVars(<<>>, conf.EnvironmentVariables),
     Resources |-> Resources(conf.Limits)]

\* Create: the service object svc-{Id}.
Service(id) ==
    [Name |-> "svc-" \o id,
     Labels |-> Put(EmptyMap, "uuid", id),
     Selector |-> Put(EmptyMap, "uuid", id)]

NoPodObject ==
    [Name |-> "", Labels |-> EmptyMap, Env |-> <<>>,
     Resources |-> Resources([CpuLimit |-> 0, BoundedMemoryLimit |-> 0])]

NoServiceObject == [Name |-> "", Labels |-> EmptyMap, Selector |-> EmptyMap]

\* A snapshot with no labels, no environment entries and one core.
DefaultConfiguration ==
    [Labels |-> EmptyMap,
     EnvironmentVariables |-> <<>>,
     Limits |-> [CpuLimit |-> 100, BoundedMemoryLimit |-> 1048576]]

\* Label maps a user can configure: any of the reserved keys and one of
\* their own, with values of their own or the reserved one.
UserLabelKeys == {"uuid", "Service", "ContainerType", "app"}
UserLabelValues == {"custom", "Pterodactyl"}
UserLabelMaps == UNION {[K -> UserLabelValues] : K \in SUBSET UserLabelKeys}

\* Environment entries of the form KEY=VALUE: both parts, no key, no value,
\* neither, and a value that holds a "=".
EnvEntries ==
    {<<"A", "=", "1">>, <<"=", "1">>, <<"A", "=">>, <<"=">>,
     <<"A", "=", "1", "=", "2">>}
EnvLists == UNION {[1..n -> EnvEntries] : n \in 0..MaxEnvVars}

\* CPU limits in percent of a core, and results of BoundedMemoryLimit().
CpuLimits == {0, 50, 100, 150, 200, 250}
MemoryLimits == {0, 1048576}

\* An empty namespace and a server on which no operation is in progress; the
\* server's process is stopped or running when the first operation arrives,
\* and its configuration snapshot is one of confs.
InitOf(confs) ==
    /\ pod = FALSE /\ svc = FALSE /\ pvc = FALSE /\ configmap = FALSE
    /\ installer = NoPod /\ installerUid = ""
    /\ podObject = NoPodObject /\ svcObject = NoServiceObject
    /\ installerEnv = <<>>
    /\ tmpDir = FALSE /\ logFile = "absent"
    /\ installing = FALSE
    /\ state \in {Offline, Running}
    /\ ctxCancelled = FALSE
    /\ skipEggScripts \in BOOLEAN
    /\ configuration \in confs
    /\ pc = [p \in InstallProcs \cup ConcurrentEnvProcs \cup CmdProcs
                        \cup AttachProcs |-> "idle"]
    /\ reinstall = [p \in InstallProcs |-> FALSE]
    /\ err = [p \in InstallProcs |-> ErrNil]
    /\ cID = [p \in InstallProcs |-> ""]
    /\ calls = [p \in InstallProcs |-> <<>>]
    /\ polledPhase = [p \in InstallProcs |-> "-"]
    /\ polledCancelled = [p \in InstallProcs |-> FALSE]
    /\ ret = [e \in ConcurrentEnvProcs \cup CmdProcs \cup AttachProcs |->
                    Ret("-", "-")]
    /\ faults = 0
    /\ meta = [type |-> "command", value |-> "stop"]
    /\ cmd = "" /\ stdin = "" /\ scErr = ErrNil /\ attachStream = "none"
    /\ attached = 0
    /\ gpc = [g \in Goroutines |-> "unborn"]
    /\ podLogs = [g \in Goroutines |-> "none"]
    /\ pollCtx = [g \in Goroutines |-> "none"]
    /\ readPos = [g \in Goroutines |-> 0]
    /\ written = 0
    /\ delivered = [l \in 1..MaxLines |-> 0]
    /\ logCallbackMx = 0

Init == InitOf({DefaultConfiguration})

\* The user's labels are any of UserLabelMaps.
InitLabels ==
    InitOf({[DefaultConfiguration EXCEPT !.Labels = l] : l \in UserLabelMaps})

\* The environment entries are any list of EnvLists.
InitEnvVars ==
    InitOf({[DefaultConfiguration EXCEPT !.EnvironmentVariables = l] :
               l \in EnvLists})

\* The limits are any of CpuLimits and MemoryLimits.
InitResources ==
    InitOf({[DefaultConfiguration EXCEPT !.Limits =
                 [CpuLimit |-> c, BoundedMemoryLimit |-> m]] :
               c \in CpuLimits, m \in MemoryLimits})

(***************************************************************************)
(* Collaborators of this repository whose code lies outside the modelled   *)
(* files.                                                                  *)
(***************************************************************************)

\* system.AtomicBool.SwapIf(v): stores v and reports TRUE when the value
\* differs from v, else leaves it and reports FALSE; one atomic operation.
SwapIf(cur, v) == [swapped |-> cur # v, value |-> v]

\* Environment.WaitForStop(ctx, timeout, kill): returns nil once the state
\* has reached Offline (by itself, or through the kill), or an error.
WaitForStop(st, ok) == IF ok THEN Offline ELSE st

\* SetState of the state publisher.
SetState(s) == state' = s

\* system.ScanReader(r, callback): calls callback once for every line read
\* from r, in order, and returns when r ends or reading it fails.
ScanReaderReturns(stream) == stream \in {"eof", "error"}

\* Environment.pollResources(ctx): samples until ctx is cancelled, then exits.
PollResourcesRuns(ctx) == ctx = "live"

(***************************************************************************)
(* Server.Install, Server.Reinstall, Server.install, Server.internalInstall*)
(***************************************************************************)

\* A new invocation starts with fresh locals.
Fresh(p, re) ==
    /\ reinstall' = [reinstall EXCEPT ![p] = re]
    /\ err' = [err EXCEPT ![p] = ErrNil]
    /\ UNCHANGED <<cID, polledPhase, polledCancelled>>

\* func (s *Server) Install() error { return s.install(false) }
Install(p) ==
    /\ pc[p] \in {"idle", "returned"}
    /\ Fresh(p, FALSE)
    /\ calls' = [calls EXCEPT ![p] = <<>>]
    /\ Goto(p, "install")
    /\ UNCHANGED <<clusterVars, hostVars, serverVars, ret, faults>>
    /\ UNCHANGED consoleVars

\* Reinstall: if s.Environment.State() != ProcessOfflineState { ... }
ReinstallCheckState(p) ==
    /\ pc[p] \in {"idle", "returned"}
    /\ Fresh(p, TRUE)
    /\ calls' = [calls EXCEPT ![p] = <<Call("State", 0, state = Offline, FALSE)>>]
    /\ Goto(p, IF state # Offline THEN "re_wait" ELSE "re_sync")
    /\ UNCHANGED <<clusterVars, hostVars, serverVars, ret, faults>>
    /\ UNCHANGED consoleVars

\* Reinstall: s.Environment.WaitForStop(s.Context(), time.Second*10, true)
ReinstallWaitForStop(p) ==
    /\ pc[p] = "re_wait"
    /\ Log(p, Call("WaitForStop", StopTimeout, TRUE, FALSE))
    /\ \/ /\ CallOk(ctxCancelled)
          /\ SetState(WaitForStop(state, TRUE))
          /\ Goto(p, "re_sync")
          /\ UNCHANGED err
       \/ /\ CallErr(ctxCancelled)
          /\ Fail(p, ErrStop)
          /\ Goto(p, "returned")
          /\ UNCHANGED state
    /\ UNCHANGED <<clusterVars, hostVars, installing, ctxCancelled, skipEggScripts, configuration,
                   reinstall, cID, polledPhase, polledCancelled, ret>>
    /\ UNCHANGED consoleVars

\* Reinstall going on to install(true) without the panel sync.
ReinstallSync_Skipped(p) ==
    /\ pc[p] = "re_sync"
    /\ Goto(p, "install")
    /\ UNCHANGED <<clusterVars, hostVars, serverVars, procVars, ret, faults>>
    /\ UNCHANGED consoleVars

\* Reinstall: s.Sync(), then return s.install(true)
ReinstallSync(p) ==
    /\ pc[p] = "re_sync"
    /\ Log(p, Call("Sync", 0, FALSE, FALSE))
    /\ \/ NoFault /\ Goto(p, "install") /\ UNCHANGED err
       \/ Fault /\ Fail(p, ErrSync) /\ Goto(p, "returned")
    /\ UNCHANGED <<clusterVars, hostVars, serverVars, reinstall, cID,
                   polledPhase, polledCancelled, ret>>
    /\ UNCHANGED consoleVars

\* install publishing the start event before the SkipEggScripts test.
InstallBegin_AlwaysPublishes(p) ==
    /\ pc[p] = "install"
    /\ Log(p, Call("Publish:InstallStarted", 0, FALSE, FALSE))
    /\ Goto(p, IF ~skipEggScripts THEN "internalInstall" ELSE "syncInstallState")
    /\ UNCHANGED <<clusterVars, hostVars, serverVars, reinstall, err, cID,
                   polledPhase, polledCancelled, ret, faults>>
    /\ UNCHANGED consoleVars

\* install: the SkipEggScripts test and the InstallStarted event.
InstallBegin(p) ==
    /\ pc[p] = "install"
    /\ IF ~skipEggScripts
          THEN Log(p, Call("Publish:InstallStarted", 0, FALSE, FALSE))
               /\ Goto(p, "internalInstall")
          ELSE UNCHANGED calls /\ Goto(p, "syncInstallState")
    /\ UNCHANGED <<clusterVars, hostVars, serverVars, reinstall, err, cID,
                   polledPhase, polledCancelled, ret, faults>>
    /\ UNCHANGED consoleVars

\* internalInstall: GetInstallationScript and NewInstallationProcess.
InternalInstall(p) ==
    /\ pc[p] = "internalInstall"
    /\ Log(p, Call("GetInstallationScript", 0, FALSE, FALSE))
    /\ \/ CallOk(ctxCancelled) /\ Goto(p, "Run") /\ UNCHANGED err
       \/ /\ CallErr(ctxCancelled)
          /\ Fail(p, ErrScript)
          /\ Goto(p, "syncInstallState")
       \/ /\ ~ctxCancelled /\ Fault
          /\ Fail(p, ErrCluster)
          /\ Goto(p, "syncInstallState")
    /\ UNCHANGED <<clusterVars, hostVars, serverVars, reinstall, cID,
                   polledPhase, polledCancelled, ret>>
    /\ UNCHANGED consoleVars

(***************************************************************************)
(* InstallationProcess.Run and the steps it calls.                         *)
(***************************************************************************)

\* Run taking no notice of SwapIf's answer.
RunAcquire_IgnoresLock(p) ==
    /\ pc[p] = "Run"
    /\ installing' = TRUE
    /\ Goto(p, "writeScriptToDisk")
    /\ UNCHANGED <<clusterVars, hostVars, state, ctxCancelled,
                   skipEggScripts, configuration, procVars, ret, faults>>
    /\ UNCHANGED consoleVars

\* Run with the deferred release registered before the lock is taken.
RunAcquire_ReleasesOnFailure(p) ==
    /\ pc[p] = "Run"
    /\ LET r == SwapIf(installing, TRUE) IN
       IF r.swapped
          THEN /\ installing' = r.value
               /\ Goto(p, "writeScriptToDisk")
               /\ UNCHANGED err
          ELSE /\ Fail(p, ErrLock)
               /\ Goto(p, "syncInstallState")
               /\ installing' = FALSE
    /\ UNCHANGED <<clusterVars, hostVars, state, ctxCancelled,
                   skipEggScripts, configuration, reinstall, cID, calls, polledPhase,
                   polledCancelled, ret, faults>>
    /\ UNCHANGED consoleVars

\* Run: if !ip.Server.installing.SwapIf(true) { return error }, else the
\* deferred release is registered and BeforeExecute starts.
RunAcquire(p) ==
    /\ pc[p] = "Run"
    /\ LET r == SwapIf(installing, TRUE) IN
       IF r.swapped
          THEN /\ installing' = r.value
               /\ Goto(p, "writeScriptToDisk")
               /\ UNCHANGED err
          ELSE /\ Fail(p, ErrLock)
               /\ Goto(p, "syncInstallState")
               /\ UNCHANGED installing
    /\ UNCHANGED <<clusterVars, hostVars, state, ctxCancelled,
                   skipEggScripts, configuration, reinstall, cID, calls, polledPhase,
                   polledCancelled, ret, faults>>
    /\ UNCHANGED consoleVars

\* Run's deferred ip.Server.installing.Store(false), then Run returns.
RunRelease(p) ==
    /\ pc[p] = "release"
    /\ installing' = FALSE
    /\ cID' = [cID EXCEPT ![p] = ""]
    /\ polledPhase' = [polledPhase EXCEPT ![p] = "-"]
    /\ polledCancelled' = [polledCancelled EXCEPT ![p] = FALSE]
    /\ Goto(p, "syncInstallState")
    /\ UNCHANGED <<clusterVars, hostVars, state, ctxCancelled,
                   skipEggScripts, configuration, reinstall, err, calls, ret, faults>>
    /\ UNCHANGED consoleVars

\* BeforeExecute: writeScriptToDisk (MkdirAll, OpenFile, scan and write).
WriteScriptToDisk(p) ==
    /\ pc[p] = "writeScriptToDisk"
    /\ \/ /\ NoFault
          /\ tmpDir' = TRUE
          /\ Goto(p, "be_pvc")
          /\ UNCHANGED err
       \/ /\ Fault
          /\ tmpDir' \in {tmpDir, TRUE}
          /\ Fail(p, ErrWriteScript)
          /\ Goto(p, "release")
    /\ UNCHANGED <<clusterVars, logFile, serverVars, reinstall, cID, calls,
                   polledPhase, polledCancelled, ret>>
    /\ UNCHANGED consoleVars

\* BeforeExecute: delete PVC {Id}-pvc with context.Background(); NotFound is
\* tolerated.
BeforeExecuteDeletePVC(p) ==
    /\ pc[p] = "be_pvc"
    /\ \/ /\ CallOk(FALSE)
          /\ pvc' = FALSE
          /\ Goto(p, "be_rm_pod")
          /\ UNCHANGED err
       \/ /\ CallErr(FALSE)
          /\ Fail(p, ErrRemovePvc)
          /\ Goto(p, "release")
          /\ UNCHANGED pvc
    /\ UNCHANGED <<pod, svc, configmap, installer, installerUid, objectVars,
                   hostVars,
                   serverVars, reinstall, cID, calls, polledPhase,
                   polledCancelled, ret>>
    /\ UNCHANGED consoleVars

\* Where RemoveContainer was called from: BeforeExecute ("be"), Run after a
\* failed Execute ("fx"), AfterExecute's defer ("ae").
RemoveContainerCaller(p) ==
    CASE pc[p] \in {"be_rm_pod", "be_rm_cm"} -> "be"
      [] pc[p] \in {"fx_rm_pod", "fx_rm_cm"} -> "fx"
      [] pc[p] \in {"ae_rm_pod", "ae_rm_cm"} -> "ae"
      [] OTHER -> "-"

\* RemoveContainer returned e to its caller: BeforeExecute returns it
\* wrapped, Run discards it, AfterExecute's defer discards it.
RemoveContainerReturn(p, e) ==
    IF RemoveContainerCaller(p) = "be"
       THEN IF e = ErrNil
               THEN Goto(p, "ex_read") /\ UNCHANGED err
               ELSE Goto(p, "release") /\ Fail(p, ErrRemoveContainer)
       ELSE Goto(p, "release") /\ UNCHANGED err

\* RemoveContainer: delete pod {Id}-installer with the server's context.
RemoveContainerPod(p) ==
    /\ pc[p] \in {"be_rm_pod", "fx_rm_pod", "ae_rm_pod"}
    /\ \/ /\ CallOk(ctxCancelled)
          /\ installer' = NoPod
          /\ installerUid' = ""
          /\ installerEnv' = <<>>
          /\ Goto(p, RemoveContainerCaller(p) \o "_rm_cm")
          /\ UNCHANGED err
       \/ /\ CallErr(ctxCancelled)
          /\ RemoveContainerReturn(p, "delete failed")
          /\ UNCHANGED <<installer, installerUid, installerEnv>>
    /\ UNCHANGED <<pod, svc, pvc, configmap, podObject, svcObject,
                   hostVars, serverVars,
                   reinstall, cID, calls, polledPhase, polledCancelled, ret>>
    /\ UNCHANGED consoleVars

\* RemoveContainer: delete ConfigMap {Id}-configmap with the server's context.
RemoveContainerConfigMap(p) ==
    /\ pc[p] \in {"be_rm_cm", "fx_rm_cm", "ae_rm_cm"}
    /\ \/ /\ CallOk(ctxCancelled)
          /\ configmap' = FALSE
          /\ RemoveContainerReturn(p, ErrNil)
       \/ /\ CallErr(ctxCancelled)
          /\ RemoveContainerReturn(p, "delete failed")
          /\ UNCHANGED configmap
    /\ UNCHANGED <<pod, svc, pvc, installer, installerUid, objectVars,
                   hostVars, serverVars,
                   reinstall, cID, calls, polledPhase, polledCancelled, ret>>
    /\ UNCHANGED consoleVars

(***************************************************************************)
(* InstallationProcess.Execute                                             *)
(***************************************************************************)

\* Execute returns "", err to Run before the temp-directory defer exists:
\* Run calls RemoveContainer and returns the error.
ExecuteFail(p) == Fail(p, ErrExecute) /\ Goto(p, "fx_rm_pod")

\* Execute: os.ReadFile of {TmpDir}/{Id}/install.sh.
ExecuteReadScript(p) ==
    /\ pc[p] = "ex_read"
    /\ \/ /\ tmpDir /\ NoFault
          /\ Goto(p, "ex_cm")
          /\ UNCHANGED err
       \/ /\ IF tmpDir THEN Fault ELSE NoFault
          /\ ExecuteFail(p)
    /\ UNCHANGED <<clusterVars, hostVars, serverVars, reinstall, cID, calls,
                   polledPhase, polledCancelled, ret>>
    /\ UNCHANGED consoleVars

\* Execute: create the ConfigMap with ctx; AlreadyExists is tolerated and any
\* other error is only logged.
ExecuteCreateConfigMap(p) ==
    /\ pc[p] = "ex_cm"
    /\ \/ CallOk(ctxCancelled) /\ configmap' = TRUE
       \/ CallErr(ctxCancelled) /\ UNCHANGED configmap
    /\ Goto(p, "ex_pvc")
    /\ UNCHANGED <<pod, svc, pvc, installer, installerUid, objectVars,
                   hostVars, serverVars,
                   procVars, ret>>
    /\ UNCHANGED consoleVars

\* Execute: create the PVC with context.TODO(); every error is returned.
ExecuteCreatePVC(p) ==
    /\ pc[p] = "ex_pvc"
    /\ \/ /\ ~pvc /\ CallOk(FALSE)
          /\ pvc' = TRUE
          /\ Goto(p, "ex_datadir")
          /\ UNCHANGED err
       \/ /\ IF pvc THEN NoFault ELSE CallErr(FALSE)
          /\ ExecuteFail(p)
          /\ UNCHANGED pvc
    /\ UNCHANGED <<pod, svc, configmap, installer, installerUid, objectVars,
                   hostVars,
                   serverVars, reinstall, cID, calls, polledPhase,
                   polledCancelled, ret>>
    /\ UNCHANGED consoleVars

\* Execute: ip.Server.EnsureDataDirectoryExists().
ExecuteEnsureDataDirectory(p) ==
    /\ pc[p] = "ex_datadir"
    /\ \/ NoFault /\ Goto(p, "ex_pod") /\ UNCHANGED err
       \/ Fault /\ ExecuteFail(p)
    /\ UNCHANGED <<clusterVars, hostVars, serverVars, reinstall, cID, calls,
                   polledPhase, polledCancelled, ret>>
    /\ UNCHANGED consoleVars

\* UID the cluster assigns to the installer pod created by p.
NewUid(p) == "uid-" \o p

\* Execute: create pod {Id}-installer with ctx, after the defer that removes
\* the temp directory was registered.
ExecuteCreatePod(p) ==
    /\ pc[p] = "ex_pod"
    /\ \/ /\ installer = NoPod /\ CallOk(ctxCancelled)
          /\ installer' = PodPending
          /\ installerUid' = NewUid(p)
          /\ installerEnv' = EnvVars(<<>>, configuration.EnvironmentVariables)
          /\ cID' = [cID EXCEPT ![p] = NewUid(p)]
          /\ Goto(p, "ex_poll")
          /\ UNCHANGED err
       \/ /\ IF installer # NoPod THEN NoFault ELSE CallErr(ctxCancelled)
          /\ Fail(p, ErrExecute)
          /\ Goto(p, "ex_rmtmp")
          /\ UNCHANGED <<installer, installerUid, installerEnv, cID>>
    /\ UNCHANGED <<pod, svc, pvc, configmap, podObject, svcObject,
                   hostVars, serverVars, reinstall,
                   calls, polledPhase, polledCancelled, ret>>
    /\ UNCHANGED consoleVars

\* What one tick of wait.PollInfinite's conditionFunc answers for a phase:
\* done (true, nil) for Succeeded, continue (false, nil) for everything else.
PollDone(phase) == phase = PodSucceeded

\* Execute: one tick of the foreground poll, a Get with context.TODO().
ExecutePoll(p) ==
    /\ pc[p] = "ex_poll"
    /\ \/ /\ installer # NoPod /\ CallOk(FALSE)
          /\ IF PollDone(installer)
                THEN /\ Log(p, Call("Publish:DaemonMessage", 0, FALSE, FALSE))
                     /\ Goto(p, "ex_rmtmp")
                ELSE /\ UNCHANGED calls
                     /\ Goto(p, "ex_poll")
          /\ polledPhase' = [polledPhase EXCEPT ![p] = installer]
          /\ polledCancelled' = [polledCancelled EXCEPT ![p] = ctxCancelled]
          /\ UNCHANGED <<err, cID>>
       \/ /\ IF installer = NoPod THEN NoFault ELSE CallErr(FALSE)
          /\ Fail(p, ErrExecute)
          /\ cID' = [cID EXCEPT ![p] = ""]
          /\ polledPhase' = [polledPhase EXCEPT ![p] = "-"]
          /\ polledCancelled' = [polledCancelled EXCEPT ![p] = FALSE]
          /\ Goto(p, "ex_rmtmp")
          /\ UNCHANGED calls
    /\ UNCHANGED <<clusterVars, hostVars, serverVars, reinstall, ret>>
    /\ UNCHANGED consoleVars

\* Execute's deferred os.RemoveAll(ip.tempDir()); a failure is only logged.
\* Execute then returns to Run.
ExecuteRemoveTempDir(p) ==
    /\ pc[p] = "ex_rmtmp"
    /\ \/ NoFault /\ tmpDir' = FALSE
       \/ Fault /\ UNCHANGED tmpDir
    /\ Goto(p, IF err[p] = ErrNil THEN "ae_stream" ELSE "fx_rm_pod")
    /\ UNCHANGED <<clusterVars, logFile, serverVars, procVars, ret>>
    /\ UNCHANGED consoleVars

(***************************************************************************)
(* InstallationProcess.AfterExecute; its error is only logged by Run.      *)
(***************************************************************************)

\* AfterExecute's error is returned by Run, and RemoveContainer is left out.
AfterExecuteStream_SurfacesError(p) ==
    /\ pc[p] = "ae_stream"
    /\ \/ /\ installer # NoPod /\ CallOk(ctxCancelled) /\ Goto(p, "ae_open")
          /\ UNCHANGED err
       \/ /\ IF installer = NoPod THEN NoFault ELSE CallErr(ctxCancelled)
          /\ Fail(p, ErrExecute)
          /\ Goto(p, "release")
    /\ UNCHANGED <<clusterVars, hostVars, serverVars, reinstall, cID, calls,
                   polledPhase, polledCancelled, ret>>
    /\ UNCHANGED consoleVars

\* AfterExecute: open the non-follow log stream with the server's context.
AfterExecuteStream(p) ==
    /\ pc[p] = "ae_stream"
    /\ \/ installer # NoPod /\ CallOk(ctxCancelled) /\ Goto(p, "ae_open")
       \/ /\ IF installer = NoPod THEN NoFault ELSE CallErr(ctxCancelled)
          /\ Goto(p, "ae_rm_pod")
    /\ UNCHANGED <<clusterVars, hostVars, serverVars, procVars, ret>>
    /\ UNCHANGED consoleVars

\* AfterExecute: os.OpenFile(GetLogPath(), O_WRONLY|O_CREATE|O_TRUNC).
AfterExecuteOpenLog(p) ==
    /\ pc[p] = "ae_open"
    /\ \/ NoFault /\ logFile' = "partial" /\ Goto(p, "ae_write")
       \/ Fault /\ UNCHANGED logFile /\ Goto(p, "ae_rm_pod")
    /\ UNCHANGED <<clusterVars, tmpDir, serverVars, procVars, ret>>
    /\ UNCHANGED consoleVars

\* AfterExecute returns nil although the pod's log was not copied.
AfterExecuteWriteLog_SkipsCopy(p) ==
    /\ pc[p] = "ae_write"
    /\ NoFault /\ logFile' = "partial"
    /\ Log(p, Call("WriteInstallLog", 0, FALSE, FALSE))
    /\ Goto(p, "ae_rm_pod")
    /\ UNCHANGED <<clusterVars, tmpDir, serverVars, reinstall, err, cID,
                   polledPhase, polledCancelled, ret>>
    /\ UNCHANGED consoleVars

\* AfterExecute: the header template, then io.Copy of the pod's log; with
\* both done AfterExecute returns nil.
AfterExecuteWriteLog(p) ==
    /\ pc[p] = "ae_write"
    /\ \/ /\ NoFault /\ logFile' = "full"
          /\ Log(p, Call("WriteInstallLog", 0, FALSE, FALSE))
       \/ Fault /\ logFile' = "partial" /\ UNCHANGED calls
    /\ Goto(p, "ae_rm_pod")
    /\ UNCHANGED <<clusterVars, tmpDir, serverVars, reinstall, err, cID,
                   polledPhase, polledCancelled, ret>>
    /\ UNCHANGED consoleVars

(***************************************************************************)
(* The rest of Server.install                                              *)
(***************************************************************************)

\* install reporting success whatever the outcome.
SyncInstallState_AlwaysSuccessful(p) ==
    /\ pc[p] = "syncInstallState"
    /\ Log(p, Call("SyncInstallState", 0, TRUE, reinstall[p]))
    /\ CallOk(ctxCancelled) \/ CallErr(ctxCancelled)
    /\ Goto(p, "setOffline")
    /\ UNCHANGED <<clusterVars, hostVars, serverVars, reinstall, err, cID,
                   polledPhase, polledCancelled, ret>>
    /\ UNCHANGED consoleVars

\* install: s.SyncInstallState(err == nil, reinstall); its error is logged.
SyncInstallState(p) ==
    /\ pc[p] = "syncInstallState"
    /\ Log(p, Call("SyncInstallState", 0, err[p] = ErrNil, reinstall[p]))
    /\ CallOk(ctxCancelled) \/ CallErr(ctxCancelled)
    /\ Goto(p, "setOffline")
    /\ UNCHANGED <<clusterVars, hostVars, serverVars, reinstall, err, cID,
                   polledPhase, polledCancelled, ret>>
    /\ UNCHANGED consoleVars

\* install: s.Environment.SetState(environment.ProcessOfflineState)
InstallSetOffline(p) ==
    /\ pc[p] = "setOffline"
    /\ SetState(Offline)
    /\ Log(p, Call("SetState", 0, TRUE, FALSE))
    /\ Goto(p, "publishCompleted")
    /\ UNCHANGED <<clusterVars, hostVars, installing, ctxCancelled, skipEggScripts, configuration,
                   reinstall, err, cID, polledPhase, polledCancelled, ret, faults>>
    /\ UNCHANGED consoleVars

\* install: publish InstallCompletedEvent and return err.
InstallPublishCompleted(p) ==
    /\ pc[p] = "publishCompleted"
    /\ Log(p, Call("Publish:InstallCompleted", 0, FALSE, FALSE))
    /\ Goto(p, "returned")
    /\ UNCHANGED <<clusterVars, hostVars, serverVars, reinstall, err, cID,
                   polledPhase, polledCancelled, ret, faults>>
    /\ UNCHANGED consoleVars

(***************************************************************************)
(* The cluster and the owner of the server.                                *)
(***************************************************************************)

\* The kubelet moves the installer pod through its phases.
InstallerPodProgress ==
    /\ \/ installer = PodPending /\ installer' \in {PodRunning, PodFailed}
       \/ installer = PodRunning /\ installer' \in {PodSucceeded, PodFailed}
    /\ UNCHANGED <<pod, svc, pvc, configmap, installerUid, objectVars,
                   hostVars, serverVars,
                   pc, procVars, ret, faults>>
    /\ UNCHANGED consoleVars

\* The server is deleted: its context is cancelled.
CancelServerContext ==
    /\ ~ctxCancelled
    /\ ctxCancelled' = TRUE
    /\ UNCHANGED <<clusterVars, hostVars, installing, state,
                   skipEggScripts, configuration, pc, procVars, ret, faults>>
    /\ UNCHANGED consoleVars

(***************************************************************************)
(* Environment.Create and Environment.Destroy                              *)
(***************************************************************************)

ErrInspect == "environment/docker: failed to inspect container"
ErrCreateService == "environment/kubernetes: failed to create service"
ErrCreatePod == "environment/kubernetes: failed to create pod"
ErrDelete == "delete failed"
ErrNotFound == "persistentvolumeclaims not found"

Return(e, op, er) == ret' = [ret EXCEPT ![e] = Ret(op, er)] /\ Goto(e, "returned")

\* Create is called: ctx := context.Background()
CreateBegin(e) ==
    /\ pc[e] \in {"idle", "returned"}
    /\ Goto(e, "cr_get")
    /\ UNCHANGED <<clusterVars, hostVars, serverVars, procVars, ret, faults,
                   consoleVars>>

\* Create goes on to create the service and the pod whether or not the pod
\* was found.
CreateGetPod_IgnoresFound(e) ==
    /\ pc[e] = "cr_get"
    /\ \/ CallOk(FALSE) /\ Goto(e, "cr_svc") /\ UNCHANGED ret
       \/ CallErr(FALSE) /\ Return(e, "Create", ErrInspect)
    /\ UNCHANGED <<clusterVars, hostVars, serverVars, procVars>>
    /\ UNCHANGED consoleVars

\* Create: Get of pod {Id}; found returns nil, NotFound goes on, any other
\* error is returned.
CreateGetPod(e) ==
    /\ pc[e] = "cr_get"
    /\ \/ /\ CallOk(FALSE)
          /\ IF pod
                THEN Return(e, "Create", ErrNil)
                ELSE Goto(e, "cr_svc") /\ UNCHANGED ret
       \/ CallErr(FALSE) /\ Return(e, "Create", ErrInspect)
    /\ UNCHANGED <<clusterVars, hostVars, serverVars, procVars>>
    /\ UNCHANGED consoleVars

\* Create: create service svc-{Id}; AlreadyExists is tolerated.
CreateService(e) ==
    /\ pc[e] = "cr_svc"
    /\ \/ /\ CallOk(FALSE) /\ svc' = TRUE
          /\ svcObject' = (IF svc THEN svcObject ELSE Service(Id))
          /\ Goto(e, "cr_pod") /\ UNCHANGED ret
       \/ /\ CallErr(FALSE) /\ UNCHANGED <<svc, svcObject>>
          /\ Return(e, "Create", ErrCreateService)
    /\ UNCHANGED <<pod, pvc, configmap, installer, installerUid, podObject, installerEnv,
                   hostVars,
                   serverVars, procVars>>
    /\ UNCHANGED consoleVars

\* Create takes a pod that already exists for its own and returns nil.
CreatePod_ToleratesAlreadyExists(e) ==
    /\ pc[e] = "cr_pod"
    /\ \/ /\ CallOk(FALSE)
          /\ pod' = TRUE
          /\ podObject' = Pod(configuration, Id)
          /\ Return(e, "Create", ErrNil)
       \/ /\ CallErr(FALSE)
          /\ UNCHANGED <<pod, podObject>>
          /\ Return(e, "Create", ErrCreatePod)
    /\ UNCHANGED <<svc, pvc, configmap, installer, installerUid, svcObject, installerEnv,
                   hostVars,
                   serverVars, procVars>>
    /\ UNCHANGED consoleVars

\* Create: create pod {Id}; every error, AlreadyExists included, is returned.
CreatePod(e) ==
    /\ pc[e] = "cr_pod"
    /\ \/ /\ ~pod /\ CallOk(FALSE)
          /\ pod' = TRUE
          /\ podObject' = Pod(configuration, Id)
          /\ Return(e, "Create", ErrNil)
       \/ /\ IF pod THEN NoFault ELSE CallErr(FALSE)
          /\ UNCHANGED <<pod, podObject>>
          /\ Return(e, "Create", ErrCreatePod)
    /\ UNCHANGED <<svc, pvc, configmap, installer, installerUid, svcObject, installerEnv,
                   hostVars,
                   serverVars, procVars>>
    /\ UNCHANGED consoleVars

\* Destroy: e.SetState(environment.ProcessStoppingState)
DestroyBegin(e) ==
    /\ pc[e] \in {"idle", "returned"}
    /\ SetState(Stopping)
    /\ Goto(e, "ds_pod")
    /\ UNCHANGED <<clusterVars, hostVars, installing, ctxCancelled, skipEggScripts, configuration,
                   procVars, ret, faults>>
    /\ UNCHANGED consoleVars

\* Destroy: delete pod {Id}; NotFound is tolerated.
DestroyPod(e) ==
    /\ pc[e] = "ds_pod"
    /\ \/ /\ CallOk(FALSE) /\ pod' = FALSE /\ podObject' = NoPodObject
          /\ Goto(e, "ds_svc") /\ UNCHANGED ret
       \/ /\ CallErr(FALSE) /\ UNCHANGED <<pod, podObject>>
          /\ Return(e, "Destroy", ErrDelete)
    /\ UNCHANGED <<svc, pvc, configmap, installer, installerUid, svcObject, installerEnv,
                   hostVars,
                   serverVars, procVars>>
    /\ UNCHANGED consoleVars

\* Destroy goes past the service without deleting it.
DestroyService_KeepsService(e) ==
    /\ pc[e] = "ds_svc"
    /\ NoFault /\ Goto(e, "ds_pvc")
    /\ UNCHANGED <<clusterVars, hostVars, serverVars, procVars, ret>>
    /\ UNCHANGED consoleVars

\* Destroy: delete service svc-{Id}; NotFound is tolerated.
DestroyService(e) ==
    /\ pc[e] = "ds_svc"
    /\ \/ /\ CallOk(FALSE) /\ svc' = FALSE /\ svcObject' = NoServiceObject
          /\ Goto(e, "ds_pvc") /\ UNCHANGED ret
       \/ /\ CallErr(FALSE) /\ UNCHANGED <<svc, svcObject>>
          /\ Return(e, "Destroy", ErrDelete)
    /\ UNCHANGED <<pod, pvc, configmap, installer, installerUid, podObject, installerEnv,
                   hostVars,
                   serverVars, procVars>>
    /\ UNCHANGED consoleVars

\* Destroy: err = delete PVC {Id}-pvc; a NotFound does not return here but
\* stays in err.
DestroyPVC(e) ==
    /\ pc[e] = "ds_pvc"
    /\ \/ /\ CallOk(FALSE) /\ pvc' = FALSE /\ UNCHANGED ret
          /\ Goto(e, IF pvc THEN "ds_offline" ELSE "ds_offline_notfound")
       \/ CallErr(FALSE) /\ UNCHANGED pvc /\ Return(e, "Destroy", ErrDelete)
    /\ UNCHANGED <<pod, svc, configmap, installer, installerUid, objectVars,
                   hostVars,
                   serverVars, procVars>>
    /\ UNCHANGED consoleVars

\* Destroy: e.SetState(environment.ProcessOfflineState); return err
DestroyEnd(e) ==
    /\ pc[e] \in {"ds_offline", "ds_offline_notfound"}
    /\ SetState(Offline)
    /\ Return(e, "Destroy", IF pc[e] = "ds_offline" THEN ErrNil ELSE ErrNotFound)
    /\ UNCHANGED <<clusterVars, hostVars, installing, ctxCancelled, skipEggScripts, configuration,
                   procVars, faults>>
    /\ UNCHANGED consoleVars

(***************************************************************************)
(* Environment.SendCommand                                                 *)
(***************************************************************************)

ErrExecutor == "executor failed"
ErrPipe == "os.Pipe failed"
ErrStream == "executor.Stream failed"

\* State that neither SendCommand nor Attach touches.
installVars == <<hostVars, installing, ctxCancelled, skipEggScripts, configuration, procVars>>

\* e.meta.Stop.Type == "command" && c == e.meta.Stop.Value
IsStopCommand(m, c) == m.type = "command" /\ c = m.value

\* errors.Wrap(err, "environment/docker: could not write to container
\* stream"): nil for a nil err.
Wrap(e) ==
    IF e = ErrNil
        THEN ErrNil
        ELSE "environment/docker: could not write to container stream: " \o e

\* SendCommand never sets the state.
SendCommandBegin_NeverStopping(s) ==
    /\ pc[s] \in {"idle", "returned"}
    /\ \E c \in Commands, m \in StopConfigs : cmd' = c /\ meta' = m
    /\ stdin' = "" /\ scErr' = ErrNil /\ attachStream' = "none"
    /\ Goto(s, "sc_executor")
    /\ UNCHANGED <<clusterVars, installVars, state, ret, faults, attachVars>>

\* SendCommand(c) is called with the stop configuration as it is then; a
\* stop command sets the state to Stopping. The pipe, err and the goroutine
\* of an earlier call belong to that call.
SendCommandBegin(s) ==
    /\ pc[s] \in {"idle", "returned"}
    /\ \E c \in Commands, m \in StopConfigs :
          /\ cmd' = c /\ meta' = m
          /\ IF IsStopCommand(m, c) THEN SetState(Stopping) ELSE UNCHANGED state
    /\ stdin' = "" /\ scErr' = ErrNil /\ attachStream' = "none"
    /\ Goto(s, "sc_executor")
    /\ UNCHANGED <<clusterVars, installVars, ret, faults, attachVars>>

\* executor, err := e.executor(ctx, req.URL()); an error is returned.
SendCommandExecutor(s) ==
    /\ pc[s] = "sc_executor"
    /\ \/ CallOk(FALSE) /\ Goto(s, "sc_pipe") /\ UNCHANGED <<scErr, ret>>
       \/ CallErr(FALSE) /\ scErr' = ErrExecutor /\ Return(s, "SendCommand", ErrExecutor)
    /\ UNCHANGED <<clusterVars, installVars, state, attachVars,
                   meta, cmd, stdin, attachStream>>

\* r, w, err := os.Pipe(); an error is returned; w.Write([]byte(c + "\n"))
SendCommandPipe(s) ==
    /\ pc[s] = "sc_pipe"
    /\ \/ /\ CallOk(FALSE)
          /\ stdin' = cmd \o "\n"
          /\ Goto(s, "sc_go")
          /\ UNCHANGED <<scErr, ret>>
       \/ /\ CallErr(FALSE)
          /\ scErr' = ErrPipe
          /\ UNCHANGED stdin
          /\ Return(s, "SendCommand", ErrPipe)
    /\ UNCHANGED <<clusterVars, installVars, state, attachVars,
                   meta, cmd, attachStream>>

\* go func() { defer cancel(); err = executor.Stream(...) }()
SendCommandGo(s) ==
    /\ pc[s] = "sc_go"
    /\ attachStream' = "running"
    /\ Goto(s, "sc_return")
    /\ UNCHANGED <<clusterVars, installVars, state, ret, faults, attachVars,
                   meta, cmd, stdin, scErr>>

\* return errors.Wrap(err, ...): reads the err the goroutine assigns to.
SendCommandReturn(s) ==
    /\ pc[s] = "sc_return"
    /\ Return(s, "SendCommand", Wrap(scErr))
    /\ UNCHANGED <<clusterVars, installVars, state, faults, consoleVars>>

\* The goroutine of SendCommand: executor.Stream ends with nil or with an
\* error, which is assigned to the err of SendCommand; then cancel().
AttachStreamEnd ==
    /\ attachStream = "running"
    /\ scErr' \in {ErrNil, ErrStream}
    /\ attachStream' = "done"
    /\ UNCHANGED <<clusterVars, installVars, state, pc, ret, faults, attachVars,
                   meta, cmd, stdin>>

(***************************************************************************)
(* Environment.Attach                                                      *)
(***************************************************************************)

\* Attach: go func() { ... }(); return nil
Attach(a) ==
    /\ attached < MaxAttach
    /\ attached' = attached + 1
    /\ gpc' = [gpc EXCEPT ![attached + 1] = "start"]
    /\ Return(a, "Attach", ErrNil)
    /\ UNCHANGED <<clusterVars, installVars, state, faults, cmdVars,
                   podLogs, pollCtx, readPos, written, delivered, logCallbackMx>>

\* The goroutine of Attach: pollCtx, cancel := context.WithCancel(...);
\* go e.pollResources(pollCtx); podLogs, err := reader.Stream(...) with
\* Follow: true; on an error it returns (into its deferred calls).
AttachOpen(g) ==
    /\ gpc[g] = "start"
    /\ pollCtx' = [pollCtx EXCEPT ![g] = "live"]
    /\ \/ /\ pod /\ CallOk(FALSE)
          /\ podLogs' = [podLogs EXCEPT ![g] = "open"]
          /\ gpc' = [gpc EXCEPT ![g] = "scan"]
       \/ /\ IF pod THEN CallErr(FALSE) ELSE NoFault
          /\ podLogs' = [podLogs EXCEPT ![g] = "unopened"]
          /\ gpc' = [gpc EXCEPT ![g] = "exit"]
    /\ UNCHANGED <<clusterVars, installVars, state, pc, ret, cmdVars,
                   attached, readPos, written, delivered, logCallbackMx>>

\* The callback is entered without taking e.logCallbackMx.
AttachScanLine_NoLock(g) ==
    /\ gpc[g] = "scan" /\ podLogs[g] = "open"
    /\ readPos[g] < written
    /\ gpc' = [gpc EXCEPT ![g] = "callback"]
    /\ UNCHANGED <<clusterVars, installVars, state, pc, ret, faults, cmdVars,
                   attached, podLogs, pollCtx, readPos, written, delivered,
                   logCallbackMx>>

\* system.ScanReader hands the next line to the callback, which begins with
\* e.logCallbackMx.Lock().
AttachScanLine(g) ==
    /\ gpc[g] = "scan" /\ podLogs[g] = "open"
    /\ readPos[g] < written
    /\ logCallbackMx = 0
    /\ logCallbackMx' = g
    /\ gpc' = [gpc EXCEPT ![g] = "callback"]
    /\ UNCHANGED <<clusterVars, installVars, state, pc, ret, faults, cmdVars,
                   attached, podLogs, pollCtx, readPos, written, delivered>>

\* e.logCallback(v), then the deferred e.logCallbackMx.Unlock().
AttachCallback(g) ==
    /\ gpc[g] = "callback"
    /\ delivered' = [delivered EXCEPT ![readPos[g] + 1] = @ + 1]
    /\ readPos' = [readPos EXCEPT ![g] = @ + 1]
    /\ logCallbackMx' = 0
    /\ gpc' = [gpc EXCEPT ![g] = "scan"]
    /\ UNCHANGED <<clusterVars, installVars, state, pc, ret, faults, cmdVars,
                   attached, podLogs, pollCtx, written>>

\* The goroutine sets the state and then only cancels its polling context.
AttachSetOffline_KeepsState(g) ==
    /\ \/ gpc[g] = "exit"
       \/ gpc[g] = "scan" /\ ScanReaderReturns(podLogs[g])
    /\ gpc' = [gpc EXCEPT ![g] = "cancel"]
    /\ UNCHANGED <<clusterVars, installVars, state, pc, ret, faults, cmdVars,
                   attached, podLogs, pollCtx, readPos, written, delivered,
                   logCallbackMx>>

\* ScanReader returned (end of the stream, or an error), or the stream was
\* not opened: podLogs.Close() where it was, then the deferred
\* e.SetState(environment.ProcessOfflineState).
AttachSetOffline(g) ==
    /\ \/ gpc[g] = "exit"
       \/ gpc[g] = "scan" /\ ScanReaderReturns(podLogs[g])
    /\ SetState(Offline)
    /\ gpc' = [gpc EXCEPT ![g] = "cancel"]
    /\ UNCHANGED <<clusterVars, installVars, pc, ret, faults, cmdVars,
                   attached, podLogs, pollCtx, readPos, written, delivered,
                   logCallbackMx>>

\* The deferred cancel() of pollCtx; pollResources exits on it.
AttachCancel(g) ==
    /\ gpc[g] = "cancel"
    /\ pollCtx' = [pollCtx EXCEPT ![g] = "cancelled"]
    /\ gpc' = [gpc EXCEPT ![g] = "done"]
    /\ UNCHANGED <<clusterVars, installVars, state, pc, ret, faults, cmdVars,
                   attached, podLogs, readPos, written, delivered,
                   logCallbackMx>>

\* The process of the runtime pod writes a line to its output.
LogLine ==
    /\ pod /\ written < MaxLines
    /\ written' = written + 1
    /\ UNCHANGED <<clusterVars, installVars, state, pc, ret, faults, cmdVars,
                   attached, gpc, podLogs, pollCtx, readPos, delivered,
                   logCallbackMx>>

\* A follow-mode stream whose lines were all read ends (the container
\* stopped, the pod was deleted, the connection was closed).
LogStreamEnd(g) ==
    /\ podLogs[g] = "open" /\ gpc[g] = "scan" /\ readPos[g] = written
    /\ podLogs' = [podLogs EXCEPT ![g] = "eof"]
    /\ UNCHANGED <<clusterVars, installVars, state, pc, ret, faults, cmdVars,
                   attached, gpc, pollCtx, readPos, written, delivered,
                   logCallbackMx>>

\* Reading a follow-mode stream fails: the scanner ends with an error.
LogStreamError(g) ==
    /\ podLogs[g] = "open"
    /\ Fault
    /\ podLogs' = [podLogs EXCEPT ![g] = "error"]
    /\ UNCHANGED <<clusterVars, installVars, state, pc, ret, cmdVars,
                   attached, gpc, pollCtx, readPos, written, delivered,
                   logCallbackMx>>

(***************************************************************************)
(* Specification                                                           *)
(***************************************************************************)

InstallStep(p) ==
    \/ Install(p)
    \/ ReinstallCheckState(p)
    \/ ReinstallWaitForStop(p)
    \/ ReinstallSync(p)
    \/ InstallBegin(p)
    \/ InternalInstall(p)
    \/ RunAcquire(p)
    \/ WriteScriptToDisk(p)
    \/ BeforeExecuteDeletePVC(p)
    \/ RemoveContainerPod(p)
    \/ RemoveContainerConfigMap(p)
    \/ ExecuteReadScript(p)
    \/ ExecuteCreateConfigMap(p)
    \/ ExecuteCreatePVC(p)
    \/ ExecuteEnsureDataDirectory(p)
    \/ ExecuteCreatePod(p)
    \/ ExecutePoll(p)
    \/ ExecuteRemoveTempDir(p)
    \/ AfterExecuteStream(p)
    \/ AfterExecuteOpenLog(p)
    \/ AfterExecuteWriteLog(p)
    \/ RunRelease(p)
    \/ SyncInstallState(p)
    \/ InstallSetOffline(p)
    \/ InstallPublishCompleted(p)

EnvStep(e) ==
    \/ CreateBegin(e)
    \/ CreateGetPod(e)
    \/ CreateService(e)
    \/ CreatePod(e)
    \/ DestroyBegin(e)
    \/ DestroyPod(e)
    \/ DestroyService(e)
    \/ DestroyPVC(e)
    \/ DestroyEnd(e)

\* One goroutine installs while another creates and destroys the environment.
Next ==
    \/ InstallStep("i1")
    \/ \E e \in EnvProcs : EnvStep(e)
    \/ InstallerPodProgress
    \/ CancelServerContext

Spec == Init /\ [][Next]_vars

\* Several goroutines call Install / Reinstall on the same server.
NextConcurrent ==
    \/ \E p \in InstallProcs : InstallStep(p)
    \/ InstallerPodProgress
    \/ CancelServerContext

SpecConcurrent == Init /\ [][NextConcurrent]_vars

\* No operation of the callers in P is in progress.
Quiet(P) == \A p \in P : pc[p] \in {"idle", "returned"}

\* Installations, Creates and Destroys issued one after the other: an
\* operation starts only when the previous one has returned.
NextSequential ==
    \/ Quiet(EnvProcs) /\ InstallStep("i1")
    \/ Quiet({"i1"}) /\ \E e \in EnvProcs : EnvStep(e)
    \/ InstallerPodProgress
    \/ CancelServerContext

SpecSequential == Init /\ [][NextSequential]_vars

\* Two goroutines create and destroy the environment of the same server.
NextEnv == \E e \in ConcurrentEnvProcs : EnvStep(e)

SpecEnv == Init /\ [][NextEnv]_vars

SendCommandStep(s) ==
    \/ SendCommandBegin(s)
    \/ SendCommandExecutor(s)
    \/ SendCommandPipe(s)
    \/ SendCommandGo(s)
    \/ SendCommandReturn(s)

\* Commands are sent to the server one after the other.
NextCommand ==
    \/ \E s \in CmdProcs : SendCommandStep(s)
    \/ AttachStreamEnd

SpecCommand == Init /\ [][NextCommand]_vars

\* The steps of the goroutine of the g-th Attach call.
AttachGoroutine(g) ==
    \/ AttachOpen(g)
    \/ AttachScanLine(g)
    \/ AttachCallback(g)
    \/ AttachSetOffline(g)
    \/ AttachCancel(g)

CreateStep(e) ==
    \/ CreateBegin(e)
    \/ CreateGetPod(e)
    \/ CreateService(e)
    \/ CreatePod(e)

\* Two callers create the environment of the same server side by side.
NextCreate == \E e \in ConcurrentEnvProcs : CreateStep(e)

SpecCreate == Init /\ [][NextCreate]_vars

\* One caller creates the environment.
NextBuild == \E e \in EnvProcs : CreateStep(e)

SpecLabels == InitLabels /\ [][NextBuild]_vars

SpecResources == InitResources /\ [][NextBuild]_vars

\* The server is installed, any number of times, and its environment is
\* created afterwards.
NextEnvVars ==
    \/ (\A e \in EnvProcs : pc[e] = "idle") /\ InstallStep("i1")
    \/ pc["i1"] = "returned" /\ NextBuild
    \/ InstallerPodProgress

SpecEnvVars == InitEnvVars /\ [][NextEnvVars]_vars

\* The environment is created, and attached to any number of times, while
\* the server's process writes its log.
NextAttach ==
    \/ \E a \in AttachProcs : Attach(a)
    \/ \E g \in Goroutines : AttachGoroutine(g)
    \/ \E g \in Goroutines : LogStreamEnd(g)
    \/ \E g \in Goroutines : LogStreamError(g)
    \/ LogLine
    \/ \E e \in EnvProcs : CreateStep(e)

\* The Go scheduler does not stop running the goroutines of Attach while one
\* of them can take a step.
SpecAttach ==
    /\ Init /\ [][NextAttach]_vars
    /\ WF_vars(\E g \in Goroutines : AttachGoroutine(g))

(***************************************************************************)
(* Properties                                                              *)
(***************************************************************************)

\* Positions between acquiring the installing lock and releasing it.
RunBody ==
    {"writeScriptToDisk", "be_pvc", "be_rm_pod", "be_rm_cm",
     "ex_read", "ex_cm", "ex_pvc", "ex_datadir", "ex_pod", "ex_poll", "ex_rmtmp",
     "fx_rm_pod", "fx_rm_cm",
     "ae_stream", "ae_open", "ae_write", "ae_rm_pod", "ae_rm_cm", "release"}

\* Positions of install() after internalInstall returned.
AfterInternalInstall == {"syncInstallState", "setOffline", "publishCompleted", "returned"}

\* Errors with which a Run that held the lock returns.
RunErrors == {ErrWriteScript, ErrRemovePvc, ErrRemoveContainer, ErrExecute}

\* The invocation of p went through install() (Reinstall did not return early).
InstallCalled(p) == err[p] \notin {ErrStop, ErrSync}

\* A Run of p that held the lock has returned.
RunReturned(p) ==
    /\ pc[p] \in AfterInternalInstall
    /\ \/ err[p] \in RunErrors
       \/ err[p] = ErrNil /\ ~skipEggScripts

Count(p, op) == Cardinality({i \in 1..Len(calls[p]) : calls[p][i].op = op})

\* Calls made by install() and below.
InstallOps ==
    {"Publish:InstallStarted", "GetInstallationScript", "Publish:DaemonMessage",
     "SyncInstallState", "SetState", "Publish:InstallCompleted"}

\* C1: at most one Run invocation on the server is between acquiring the
\* installing lock and releasing it (in BeforeExecute, Execute or
\* AfterExecute), and the lock is held while one is.
C1_AtMostOneActiveRun ==
    /\ Cardinality({p \in InstallProcs : pc[p] \in RunBody}) <= 1
    /\ (\E p \in InstallProcs : pc[p] \in RunBody) => installing

\* One Run polls its installer pod while another invocation was turned away.
C1_Witness ==
    \E p, q \in InstallProcs :
        /\ p # q
        /\ pc[p] = "ex_poll"
        /\ pc[q] = "syncInstallState" /\ err[q] = ErrLock

\* C2: a Run that finds the installing lock held returns "install: cannot
\* obtain installation lock", and neither that step nor any later step of the
\* refused invocation changes a cluster object, the temp directory, the log
\* file or the installing flag; an installer pod is only ever created by the
\* invocation that holds the lock.
C2_RefusedRunTouchesNothing ==
    [][\A p \in InstallProcs :
          /\ (pc[p] = "Run" /\ installing /\ pc'[p] # pc[p]) =>
                /\ err'[p] = ErrLock
                /\ pc'[p] = "syncInstallState"
                /\ UNCHANGED <<clusterVars, hostVars, installing>>
          /\ (err[p] = ErrLock /\ pc'[p] # pc[p]) =>
                UNCHANGED <<clusterVars, hostVars, installing>>
          /\ (pc'[p] # pc[p] /\ installer = NoPod /\ installer' # NoPod) =>
                pc[p] = "ex_pod" /\ installing
      ]_vars

\* A refused invocation has returned while the holder's installer pod runs.
C2_Witness ==
    \E p, q \in InstallProcs :
        /\ p # q
        /\ pc[q] = "returned" /\ err[q] = ErrLock
        /\ pc[p] = "ex_poll" /\ installer = PodRunning /\ installing

\* C3: once no Run is between acquire and release the installing flag is
\* false, and a Run whose poll has seen the installer pod in a terminal phase
\* (Succeeded or Failed) leaves the poll, so that it returns.
C3_LockReleasedAndRunReturns ==
    /\ (\A p \in InstallProcs : pc[p] \notin RunBody) => ~installing
    /\ \A p \in InstallProcs :
          polledPhase[p] \in {PodSucceeded, PodFailed} => pc[p] # "ex_poll"

\* C4: a poll tick that sees phase Failed ends the poll with an error, and one
\* that sees Succeeded ends it with success and the pod's UID.
C4_PollEndsOnTerminalPhase ==
    \A p \in InstallProcs :
        /\ polledPhase[p] = PodFailed => pc[p] # "ex_poll" /\ err[p] # ErrNil
        /\ polledPhase[p] = PodSucceeded =>
              /\ pc[p] # "ex_poll"
              /\ err[p] = ErrNil
              /\ installer # NoPod => cID[p] = installerUid

\* C5: a poll tick made after the server's context was cancelled, with the
\* installer pod not in a terminal phase, ends the poll (Execute returns an
\* error).
C5_CancelEndsPoll ==
    \A p \in InstallProcs :
        (polledCancelled[p] /\ polledPhase[p] \in {PodPending, PodRunning}) =>
            pc[p] # "ex_poll"

\* C6: after a Run that held the lock has returned, with success or with an
\* error, neither the installer pod nor the ConfigMap exists.
C6_NoInstallerArtifactsAfterRun ==
    \A p \in InstallProcs :
        RunReturned(p) => installer = NoPod /\ ~configmap

\* C7: an invocation of install() that has returned made exactly one
\* SyncInstallState call, with successful true exactly when the installation
\* returned no error and with its own reinstall argument, then one SetState
\* to Offline, and the state is Offline when it returns.
C7_InstallSyncsThenOffline ==
    \A p \in InstallProcs :
        (pc[p] = "returned" /\ InstallCalled(p)) =>
            /\ Count(p, "SyncInstallState") = 1
            /\ Count(p, "SetState") = 1
            /\ \A i \in 1..Len(calls[p]) :
                  calls[p][i].op = "SyncInstallState" =>
                      /\ calls[p][i].a = (err[p] = ErrNil)
                      /\ calls[p][i].b = reinstall[p]
                      /\ i < Len(calls[p]) /\ calls[p][i + 1].op = "SetState"
            /\ state = Offline

\* Install has returned each of its outcomes' reports: here a failed Execute.
C7_Witness ==
    \E p \in InstallProcs :
        /\ pc[p] = "returned" /\ err[p] = ErrExecute
        /\ \E i \in 1..Len(calls[p]) :
              calls[p][i] = Call("SyncInstallState", 0, FALSE, FALSE)
        /\ \E q \in InstallProcs : err[q] = ErrLock /\ pc[q] = "returned"

\* C8 as stated: every invocation of install() that has returned published
\* exactly one InstallStarted, before internalInstall began, and exactly one
\* InstallCompleted after it, for every configuration.
C8_StartedAndCompletedAlways ==
    \A p \in InstallProcs :
        (pc[p] = "returned" /\ InstallCalled(p)) =>
            /\ Count(p, "Publish:InstallStarted") = 1
            /\ Count(p, "Publish:InstallCompleted") = 1
            /\ \A i, j \in 1..Len(calls[p]) :
                  (calls[p][i].op = "Publish:InstallStarted"
                     /\ calls[p][j].op = "Publish:InstallCompleted") => i < j

\* C8 amended: exactly one InstallCompleted is published, last of all; when
\* SkipEggScripts is false exactly one InstallStarted is published, before any
\* call of internalInstall; when it is true internalInstall does not run and
\* no InstallStarted is published.
C8_StartedOnlyWhenScriptsRun ==
    \A p \in InstallProcs :
        (pc[p] = "returned" /\ InstallCalled(p)) =>
            /\ Count(p, "Publish:InstallCompleted") = 1
            /\ calls[p][Len(calls[p])].op = "Publish:InstallCompleted"
            /\ IF ~skipEggScripts
                  THEN /\ Count(p, "Publish:InstallStarted") = 1
                       /\ Count(p, "GetInstallationScript") = 1
                       /\ \A i, j \in 1..Len(calls[p]) :
                             (calls[p][i].op = "Publish:InstallStarted"
                                /\ calls[p][j].op = "GetInstallationScript") => j = i + 1
                  ELSE /\ Count(p, "Publish:InstallStarted") = 0
                       /\ Count(p, "GetInstallationScript") = 0

\* An install that skipped the egg scripts has returned: it published
\* InstallCompleted and no InstallStarted.
C8_Witness ==
    \E p \in InstallProcs :
        /\ pc[p] = "returned" /\ InstallCalled(p) /\ skipEggScripts
        /\ Count(p, "Publish:InstallCompleted") = 1
        /\ Count(p, "Publish:InstallStarted") = 0

\* C9: Reinstall on a server that is not Offline calls WaitForStop(10s, true)
\* first, then Sync, and only then install(true); SyncInstallState gets
\* reinstall = true; when WaitForStop or Sync fails Reinstall returns that
\* error with no installation step, SyncInstallState call or install event; on
\* an Offline server WaitForStop is not called.
C9_ReinstallOrder ==
    \A p \in InstallProcs :
        (reinstall[p] /\ pc[p] # "idle") =>
            LET c == calls[p]
                n == Len(c)
                wasOffline == c[1].a
            IN  /\ n >= 1 /\ c[1].op = "State"
                /\ IF wasOffline
                      THEN /\ Count(p, "WaitForStop") = 0
                           /\ n >= 2 => c[2].op = "Sync"
                      ELSE /\ n >= 2 => c[2] = Call("WaitForStop", StopTimeout, TRUE, FALSE)
                           /\ n >= 3 => c[3].op = "Sync"
                /\ \A i \in 1..n :
                      c[i].op \in InstallOps => \E j \in 1..(i - 1) : c[j].op = "Sync"
                /\ (pc[p] \in RunBody \cup AfterInternalInstall \cup {"install", "internalInstall", "Run"}
                      /\ InstallCalled(p)) => Count(p, "Sync") = 1
                /\ \A i \in 1..n : c[i].op = "SyncInstallState" => c[i].b
                /\ ~InstallCalled(p) =>
                      /\ pc[p] = "returned"
                      /\ \A i \in 1..n : c[i].op \notin InstallOps
                      /\ c[n].op = (IF err[p] = ErrStop THEN "WaitForStop" ELSE "Sync")

\* A Reinstall of a server that was not Offline has run to completion.
C9_Witness ==
    \E p \in InstallProcs :
        /\ reinstall[p] /\ pc[p] = "returned" /\ err[p] = ErrNil
        /\ Len(calls[p]) >= 3 /\ calls[p][2].op = "WaitForStop"
        /\ Count(p, "SyncInstallState") = 1

\* C10: whenever the runtime pod {Id} exists, the PVC {Id}-pvc exists.
C10_PodImpliesPVC == pod => pvc

\* Positions of Destroy between its SetState(Stopping) and its return.
DestroyBody == {"ds_pod", "ds_svc", "ds_pvc", "ds_offline", "ds_offline_notfound"}

\* Positions of Destroy at which a delete call is about to be made.
DestroyDeleting == {"ds_pod", "ds_svc", "ds_pvc"}

\* C11: in the step in which a Create returns success, whatever the cluster
\* held when it was called and whichever return it takes (the early one for a
\* pod that is found, or the one after creating the pod), the pod {Id} and the
\* service svc-{Id} both exist.
C11_CreateSuccessPodAndService ==
    [][\A e \in ConcurrentEnvProcs :
          (/\ pc[e] \in {"cr_get", "cr_pod"}
           /\ pc'[e] = "returned"
           /\ ret'[e] = Ret("Create", ErrNil))
          => (pod' /\ svc')]_vars

\* C12: a Create called after a Create that returned success, with nothing
\* but installations in between, finds one pod and one service, changes no
\* object of the namespace and returns at once; it returns success unless
\* the cluster fails its Get of the pod.
C12_CreateIdempotent ==
    [][\A e \in EnvProcs :
          (pc[e] = "cr_get" /\ ret[e] = Ret("Create", ErrNil) /\ pc'[e] # pc[e])
          => (/\ pod /\ svc
              /\ UNCHANGED clusterVars
              /\ pc'[e] = "returned"
              /\ faults' = faults => ret'[e] = Ret("Create", ErrNil))]_vars

\* The second Create has been called after the first returned success.
C12_Witness ==
    /\ pc["e1"] = "cr_get" /\ ret["e1"] = Ret("Create", ErrNil)
    /\ pod /\ svc /\ faults = 0

\* C13: a Destroy none of whose deletes fails with an error other than
\* NotFound returns nil, whichever of the pod, the service and the PVC
\* existed before; the three are gone and the state is Offline.
C13_DestroyToleratesNotFound ==
    [][\A e \in EnvProcs :
          (pc[e] \in DestroyBody /\ pc'[e] = "returned" /\ faults' = faults)
          => (/\ ret'[e] = Ret("Destroy", ErrNil)
              /\ ~pod' /\ ~svc' /\ ~pvc'
              /\ state' = Offline)]_vars

\* C14: a Destroy called after a Destroy that returned success, and whose
\* deletes the cluster does not fail, returns success too and leaves the
\* same cluster state (no pod, no service, no PVC) and the state Offline.
C14_DestroyIdempotent ==
    [][\A e \in EnvProcs :
          (/\ pc[e] \in DestroyBody /\ ret[e] = Ret("Destroy", ErrNil)
           /\ pc'[e] = "returned" /\ faults' = faults)
          => (/\ ret'[e] = ret[e]
              /\ ~pod' /\ ~svc' /\ ~pvc'
              /\ state' = Offline)]_vars

\* C15: in the step in which a Destroy returns nil, with no Create and no
\* installation running beside it, the pod {Id}, the service svc-{Id} and the
\* PVC {Id}-pvc are all absent, so that a Get of each answers NotFound.
C15_DestroySuccessLeavesNothing ==
    [][\A e \in EnvProcs :
          (/\ pc[e] \in DestroyBody
           /\ pc'[e] = "returned"
           /\ ret'[e] = Ret("Destroy", ErrNil))
          => (~pod' /\ ~svc' /\ ~pvc')]_vars

\* A Destroy has returned nil; this takes a PVC that an installation made.
C15_Witness ==
    /\ pc["e1"] = "returned" /\ ret["e1"] = Ret("Destroy", ErrNil)
    /\ ~pod /\ ~svc /\ ~pvc
    /\ Count("i1", "Publish:InstallStarted") = 1

\* C16: the state is Stopping, never Running, while a Destroy is about to
\* make any of its delete calls, and it is Offline once a Destroy has
\* returned, with nil or with an error.
C16_DestroyStoppingThenOffline ==
    \A e \in EnvProcs :
        /\ pc[e] \in DestroyDeleting => state = Stopping
        /\ (pc[e] = "returned" /\ ret[e].op = "Destroy") => state = Offline

\* C17: a SendCommand(c) whose c is the stop value of a stop configuration
\* of type "command" has set the state to Stopping at every position after
\* its first step, hence before "c\n" is written to the pipe and before the
\* goroutine running the attach stream is started; a step of a SendCommand
\* with any other c or stop type leaves the state as it was.
C17_StopCommandSetsStopping ==
    [][/\ \A s \in CmdProcs :
             (IsStopCommand(meta', cmd') /\ pc'[s] # "idle") => state' = Stopping
       /\ IsStopCommand(meta', cmd') =>
             ((stdin' # "" \/ attachStream' # "none") => state' = Stopping)
       /\ ~IsStopCommand(meta', cmd') => state' = state]_vars

\* The stop command was written to the pipe and the stream started, on a
\* server that is Stopping.
C17_Witness ==
    /\ pc["s1"] = "returned" /\ ret["s1"] = Ret("SendCommand", ErrNil)
    /\ meta = [type |-> "command", value |-> "stop"] /\ cmd = "stop"
    /\ stdin = "stop\n" /\ attachStream = "running"
    /\ state = Stopping

\* The goroutine of the g-th Attach holds an open follow-mode log stream.
Reading(g) == gpc[g] \in {"scan", "callback"} /\ podLogs[g] = "open"

\* The log stream of the g-th Attach has closed, failed, or was not opened.
StreamOver(g) == podLogs[g] \in {"eof", "error", "unopened"}

\* C18: Attach returns nil in the step that starts its goroutine, whatever
\* the log stream does later; the goroutine cancels its polling context only
\* after it has set the state to Offline and only once its stream is over,
\* never while the stream is open; and once the stream has closed, failed or
\* could not be opened the goroutine eventually has set Offline and cancelled
\* the polling context (a stream that is over stays over and a goroutine
\* that is done stays done, so this is: time and again no goroutine is left
\* with a stream that is over).
C18_AttachEndsOfflineAndCancelled ==
    /\ [][\A a \in AttachProcs :
             attached' # attached =>
                 (/\ pc'[a] = "returned" /\ ret'[a] = Ret("Attach", ErrNil)
                  /\ gpc'[attached'] = "start"
                  /\ podLogs' = podLogs)]_vars
    /\ [][\A g \in Goroutines :
             /\ (gpc[g] # "cancel" /\ gpc'[g] = "cancel") => state' = Offline
             /\ pollCtx'[g] = "cancelled" =>
                    (StreamOver(g)' /\ gpc'[g] = "done" /\ gpc[g] \in {"cancel", "done"})]_vars
    /\ []<>(\A g \in Goroutines :
               StreamOver(g) => (gpc[g] = "done" /\ pollCtx[g] = "cancelled"))

\* A goroutine whose stream ended has set Offline and cancelled its polling
\* context while the goroutine of another Attach still reads its stream.
C18_Witness ==
    /\ podLogs[1] = "eof" /\ gpc[1] = "done" /\ pollCtx[1] = "cancelled"
    /\ state = Offline
    /\ Reading(2) /\ PollResourcesRuns(pollCtx[2])

\* C19: whatever Attach calls were made, at most one goroutine reads a
\* follow-mode log stream and at most one resource poller is active at any
\* time, and no line has produced more than one console callback.
C19_SingleReaderAndPoller ==
    /\ Cardinality({g \in Goroutines : Reading(g)}) <= 1
    /\ Cardinality({g \in Goroutines : PollResourcesRuns(pollCtx[g])}) <= 1
    /\ \A l \in 1..MaxLines : delivered[l] <= 1

\* C20: at most one goroutine is inside the console callback at any time,
\* and it holds e.logCallbackMx.
C20_CallbacksMutuallyExclusive ==
    /\ Cardinality({g \in Goroutines : gpc[g] = "callback"}) <= 1
    /\ \A g \in Goroutines : gpc[g] = "callback" => logCallbackMx = g

\* Two goroutines have the same line to hand on; one is inside the callback
\* and the other waits for the mutex.
C20_Witness ==
    /\ gpc[1] = "callback" /\ logCallbackMx = 1
    /\ gpc[2] = "scan" /\ podLogs[2] = "open" /\ readPos[2] < written

\* Positions of install() right after Run returned, before install() returns.
AfterRun == {"syncInstallState", "setOffline", "publishCompleted"}

\* Positions of AfterExecute before its deferred RemoveContainer.
AfterExecuteBody == {"ae_stream", "ae_open", "ae_write"}

\* Execute of the invocation of p returned no error.
ExecuteSucceeded(p) == Count(p, "Publish:DaemonMessage") = 1

\* AfterExecute of the invocation of p returned nil.
AfterExecuteSucceeded(p) == Count(p, "WriteInstallLog") = 1

\* C21: after a Run that held the lock has returned, with success or with an
\* error that arose after the script was written (in BeforeExecute, or in
\* Execute at the PVC, the data directory, the pod or the poll), the
\* directory {TmpDir}/{Id} does not exist.
C21_TmpDirRemovedAfterRun ==
    \A p \in InstallProcs :
        (RunReturned(p) /\ err[p] # ErrWriteScript) => ~tmpDir

\* C22: in a Run with no Destroy beside it, the PVC is absent from the PVC
\* delete of BeforeExecute until Execute creates it, so an old PVC is gone
\* before the installer pod and the ConfigMap are removed and before the new
\* PVC is created; the PVC exists when the installer pod is created and
\* polled; and after a successful Run the PVC exists while the installer pod
\* and the ConfigMap do not.
C22_PVCOrderAndOutcome ==
    \A p \in InstallProcs :
        /\ pc[p] \in {"be_rm_pod", "be_rm_cm", "ex_read", "ex_cm", "ex_pvc"} => ~pvc
        /\ pc[p] \in {"ex_datadir", "ex_pod", "ex_poll"} => pvc
        /\ (pc[p] \in AfterRun /\ RunReturned(p) /\ err[p] = ErrNil) =>
              (pvc /\ installer = NoPod /\ ~configmap)

\* C23: in Execute, creating a ConfigMap that exists goes on to the PVC;
\* a failed creation of the PVC, one that exists included, makes Execute
\* return an error with no installer pod created; and a creation of the
\* ConfigMap that fails and leaves no ConfigMap does not go on, so that the
\* installer pod is never created without its ConfigMap.
C23_ConfigMapAndPVCCreateErrors ==
    [][\A p \in InstallProcs :
          /\ (pc[p] = "ex_cm" /\ configmap /\ faults' = faults /\ pc'[p] # pc[p]) =>
                (pc'[p] = "ex_pvc" /\ err'[p] = ErrNil)
          /\ (pc[p] = "ex_pvc" /\ pc'[p] # pc[p] /\ (pvc \/ faults' # faults)) =>
                (err'[p] = ErrExecute /\ pc'[p] = "fx_rm_pod" /\ UNCHANGED installer)
          /\ (pc[p] = "ex_cm" /\ pc'[p] # pc[p] /\ ~configmap') => pc'[p] # "ex_pvc"
          /\ (pc[p] = "ex_pod" /\ installer = NoPod /\ installer' # NoPod) => configmap
      ]_vars

\* C24: AfterExecute never changes the error of Run: on each of its exits
\* (log stream not opened, log file not created, header or copy failed, all
\* done) it goes into RemoveContainer, whose pod delete is attempted and
\* whose ConfigMap delete follows unless the pod delete failed, and Run then
\* returns nil; a Run that held the lock returns nil exactly when
\* BeforeExecute and Execute returned no error.
C24_AfterExecuteFailureNotSurfaced ==
    /\ [][\A p \in InstallProcs :
             /\ (pc[p] \in AfterExecuteBody /\ pc'[p] # pc[p]) =>
                   (pc'[p] \in AfterExecuteBody \cup {"ae_rm_pod"} /\ err'[p] = ErrNil)
             /\ (pc[p] = "ae_rm_pod" /\ pc'[p] # pc[p]) =>
                   (/\ err'[p] = ErrNil
                    /\ pc'[p] = (IF faults' = faults /\ ~ctxCancelled
                                    THEN "ae_rm_cm" ELSE "release"))
             /\ (pc[p] = "ae_rm_cm" /\ pc'[p] # pc[p]) =>
                   (err'[p] = ErrNil /\ pc'[p] = "release")]_vars
    /\ [](\A p \in InstallProcs :
             (pc[p] \in AfterRun /\ RunReturned(p)) =>
                 (err[p] = ErrNil <=> ExecuteSucceeded(p)))

\* Run returned nil although AfterExecute could not open the log stream.
C24_Witness ==
    /\ pc["i1"] \in AfterRun /\ err["i1"] = ErrNil /\ ExecuteSucceeded("i1")
    /\ ~AfterExecuteSucceeded("i1") /\ logFile = "absent"

\* C25 as claimed: after a Run that returned success the install log exists
\* and was written by this run, header and pod output.
C25_LogFileAfterEverySuccess ==
    \A p \in InstallProcs :
        (pc[p] \in AfterRun /\ RunReturned(p) /\ err[p] = ErrNil) =>
            (logFile = "full" /\ AfterExecuteSucceeded(p))

\* C25 as amended: after a Run that returned success and whose AfterExecute
\* returned nil the install log exists and was written by this run, header
\* and pod output; and a log file is only ever completed by an AfterExecute
\* that returned nil.
C25_LogFileAfterCleanAfterExecute ==
    \A p \in InstallProcs :
        (pc[p] \in AfterRun /\ RunReturned(p) /\ err[p] = ErrNil) =>
            /\ AfterExecuteSucceeded(p) => logFile = "full"
            /\ logFile = "partial" => ~AfterExecuteSucceeded(p)

\* A Run returned success and its AfterExecute wrote the whole log.
C25_Witness ==
    /\ pc["i1"] \in AfterRun /\ err["i1"] = ErrNil /\ ExecuteSucceeded("i1")
    /\ AfterExecuteSucceeded("i1") /\ logFile = "full"

\* C26: with two Create invocations for one server side by side and no API
\* failure, once both have returned the pod {Id} and the service svc-{Id}
\* exist; the service exists whenever an invocation is about to create the
\* pod; creating a service that exists is no error and goes on to the pod;
\* and an invocation that creates the pod after the other one did returns an
\* error.
C26_ConcurrentCreate ==
    /\ []((faults = 0 /\ \A e \in ConcurrentEnvProcs : pc[e] = "returned") =>
             (pod /\ svc))
    /\ [](\A e \in ConcurrentEnvProcs : pc[e] = "cr_pod" => svc)
    /\ [][\A e \in ConcurrentEnvProcs :
             /\ (pc[e] = "cr_svc" /\ svc /\ faults' = faults /\ pc'[e] # pc[e]) =>
                   (pc'[e] = "cr_pod" /\ ret'[e] = ret[e] /\ svc')
             /\ (pc[e] = "cr_pod" /\ pod /\ pc'[e] # pc[e]) =>
                   (ret'[e] = Ret("Create", ErrCreatePod) /\ pod')]_vars

\* Both invocations passed the Get before either created the pod: one
\* created it, the other lost the race and returned the error.
C26_Witness ==
    /\ faults = 0 /\ pod /\ svc
    /\ pc["e1"] = "returned" /\ ret["e1"] = Ret("Create", ErrNil)
    /\ pc["e2"] = "returned" /\ ret["e2"] = Ret("Create", ErrCreatePod)

ReservedLabels == {"uuid", "Service", "ContainerType"}

\* C27: the labels of the runtime pod are the user's labels with the three
\* reserved keys set to uuid = Id, Service = Pterodactyl and ContainerType =
\* server_process whatever the user gave for them, every other user label
\* kept and no label added; the service has uuid = Id as its only label and
\* as its selector.
C27_ReservedLabelsOverrideUserLabels ==
    /\ pod =>
          /\ DOMAIN podObject.Labels = DOMAIN configuration.Labels \cup ReservedLabels
          /\ podObject.Labels["uuid"] = Id
          /\ podObject.Labels["Service"] = "Pterodactyl"
          /\ podObject.Labels["ContainerType"] = "server_process"
          /\ \A k \in DOMAIN configuration.Labels \ ReservedLabels :
                podObject.Labels[k] = configuration.Labels[k]
    /\ svc =>
          /\ DOMAIN svcObject.Labels = {"uuid"} /\ svcObject.Labels["uuid"] = Id
          /\ DOMAIN svcObject.Selector = {"uuid"} /\ svcObject.Selector["uuid"] = Id

\* The pod of a user who set all three reserved keys and a key of their own.
C27_Witness ==
    /\ pod /\ svc
    /\ DOMAIN configuration.Labels = UserLabelKeys
    /\ \A k \in UserLabelKeys : configuration.Labels[k] = "custom"
    /\ podObject.Labels["app"] = "custom"

\* An entry whose first "=" has characters before it and after it.
Forwarded(entry) ==
    \E i \in 2..(Len(entry) - 1) :
        entry[i] = "=" /\ \A j \in 1..(i - 1) : entry[j] # "="

\* Position of the first "=" of an entry.
FirstSeparator(entry) ==
    CHOOSE i \in 1..Len(entry) : entry[i] = "=" /\ \A j \in 1..(i - 1) : entry[j] # "="

\* The entries with a key and a value, in their order, as name and value.
ExpectedEnv(evs) ==
    LET kept == SelectSeq(evs, Forwarded)
    IN [n \in 1..Len(kept) |->
           [Name |-> SubSeq(kept[n], 1, FirstSeparator(kept[n]) - 1),
            Value |-> SubSeq(kept[n], FirstSeparator(kept[n]) + 1, Len(kept[n]))]]

\* C28: for every list of entries KEY=VALUE, the Env of the runtime pod and
\* the Env of the installer pod hold, in the list's order, exactly the
\* entries whose key and value, cut at the first "=", are both non-empty.
C28_EnvSkipsEmptyKeyOrValue ==
    /\ pod => podObject.Env = ExpectedEnv(configuration.EnvironmentVariables)
    /\ installer # NoPod =>
          installerEnv = ExpectedEnv(configuration.EnvironmentVariables)

\* An entry without a value is dropped and one whose value holds a "=" is
\* forwarded after it, in the runtime pod and in the installer pod.
C28_Witness ==
    /\ pod /\ installer # NoPod
    /\ configuration.EnvironmentVariables =
          <<<<"A", "=">>, <<"A", "=", "1", "=", "2">>>>
    /\ podObject.Env = <<[Name |-> <<"A">>, Value |-> <<"1", "=", "2">>]>>
    /\ installerEnv = podObject.Env

\* C29: for every CpuLimit the CPU request and the CPU limit of the runtime
\* pod are equal and are CpuLimit/100 cores, that is CpuLimit*10 milli-cores
\* (150 gives 1.5 cores); the memory request and limit are equal.
C29_CpuQuantityIsExact ==
    pod =>
        /\ podObject.Resources.Requests.cpu = podObject.Resources.Limits.cpu
        /\ MilliValue(podObject.Resources.Limits.cpu) =
              configuration.Limits.CpuLimit * 10
        /\ podObject.Resources.Requests.memory = podObject.Resources.Limits.memory

\* C30: a SendCommand that set up the executor and the pipe, and so started
\* the streaming goroutine, returns nil, whatever the stream does and
\* whenever it does it.
C30_SendCommandReturnsNil ==
    \A s \in CmdProcs :
        (pc[s] = "returned" /\ ret[s].op = "SendCommand" /\ attachStream # "none") =>
            ret[s].err = ErrNil
====
